---- MODULE Spec2Model ----
(***************************************************************************)
(* Model of the Lexi chat front end (ChatInterface.tsx) and of the API    *)
(* client it drives (lib/api.ts).  The React component state is the       *)
(* program state; every event handler and every continuation of an async  *)
(* handler after an await is one action.  A handler that is suspended on  *)
(* a request keeps the values its closure captured at the render in which *)
(* it was started.  State setters are committed before the next event.    *)
(* VariableReview and FileUpload, the components of the upload page, have *)
(* their own specifications (SpecReview, SpecUpload).                     *)
(***************************************************************************)
EXTENDS Integers, Sequences, FiniteSets, TLC

\* Bounds of the model.
MaxEvents == 2      \* user-triggered handler runs (send, form submit, use template)
MaxTasks == 2       \* async handlers suspended on a request at the same time
LongEvents == MaxEvents + 1   \* the same, for the longer sessions of SpecLong
MaxBody == 3        \* characters of the extracted text given to VariableReview
MaxExample == 1     \* characters of a variable's example value
MaxVars == 2        \* variables detected in an uploaded document
MaxName == 3        \* characters of the name of a file given to FileUpload
MaxUploads == 2     \* files the user gives to FileUpload

\* ------------------------------------------------------------------------
\* Strings.  A string is a sequence of tokens; SP is a whitespace character.
\* ------------------------------------------------------------------------
SP == " "
VARS == "/vars"
EmptyStr == << >>

RECURSIVE TrimStart(_)
TrimStart(s) == IF s # << >> /\ Head(s) = SP THEN TrimStart(Tail(s)) ELSE s

RECURSIVE TrimEnd(_)
TrimEnd(s) ==
    IF s # << >> /\ s[Len(s)] = SP THEN TrimEnd(SubSeq(s, 1, Len(s) - 1)) ELSE s

\* String.prototype.trim
Trim(s) == TrimEnd(TrimStart(s))

\* userMessage.startsWith('/vars')
StartsWithVars(s) == s # << >> /\ Head(s) = VARS

\* What the user can type into the chat input.
Inputs == { <<SP>>, <<SP, "a", SP>>, <<VARS>> }

\* What the user can type into a field of a question form.
FormVals == { <<"x">>, <<SP>> }

\* ------------------------------------------------------------------------
\* A Record<string, string> is a function on AllKeys; Undefined is what
\* reading a key that the record does not have yields.
\* ------------------------------------------------------------------------
AllKeys == {"k1", "k2", "k3"}
Undefined == <<"undefined">>
EmptyMap == [k \in AllKeys |-> Undefined]
Has(a, k) == a[k] # Undefined

\* Object.keys
Keys(a) == { k \in AllKeys : Has(a, k) }

\* { ...a, ...b } with the operands swapped: the spread in the wrong order
SpreadSwapped(a, b) == [k \in AllKeys |-> IF Has(a, k) THEN a[k] ELSE b[k]]

\* { ...a, ...b }
Spread(a, b) == [k \in AllKeys |-> IF Has(b, k) THEN b[k] ELSE a[k]]

RemoveAt(s, i) == SubSeq(s, 1, i - 1) \o SubSeq(s, i + 1, Len(s))

Range(s) == { s[i] : i \in 1..Len(s) }

\* ------------------------------------------------------------------------
\* The server: template catalogue, matcher/resolver and question generator.
\* ------------------------------------------------------------------------
NoTemplate == "null"
Templates == <<"T1", "T2", "T3">>

\* Template.variables of the catalogue's templates
Variables(t) ==
    CASE t = "T1" -> << [key |-> "k1", required |-> TRUE],
                        [key |-> "k2", required |-> TRUE] >>
      [] t = "T2" -> << [key |-> "k3", required |-> FALSE] >>
      [] t = "T3" -> << >>

KeysOf(t) == [i \in 1..Len(Variables(t)) |-> Variables(t)[i].key]

\* resolve(): the required keys with no extracted value, in schema order
MissingOf(t, have) ==
    LET left == SelectSeq(Variables(t), LAMBDA v : v.required /\ v.key \notin have)
    IN  [i \in 1..Len(left) |-> left[i].key]

\* match(): every candidate other than the best one
AlternativesOf(t) == SelectSeq(Templates, LAMBDA u : u # t)

\* The bodies POST /api/chat/match can answer a query with.  Extracted
\* values are text of the query itself.
MatchResponses(q) ==
    { [best |-> NoTemplate, alternatives |-> Templates,
       prefilled |-> EmptyMap, missing |-> << >>] }
    \cup
    UNION { { [best |-> t, alternatives |-> AlternativesOf(t),
               prefilled |-> [k \in AllKeys |-> IF k \in S THEN q ELSE Undefined],
               missing |-> MissingOf(t, S)] :
                S \in SUBSET Range(KeysOf(t)) } : t \in Range(Templates) }

\* ask(): one question per requested key that the template declares, in the
\* order of the request
QuestionsFor(t, keys) ==
    LET vars == Variables(t)
        known == SelectSeq(keys, LAMBDA k : \E i \in 1..Len(vars) : vars[i].key = k)
    IN  [i \in 1..Len(known) |->
            [key |-> known[i],
             required |-> (CHOOSE v \in Range(vars) : v.key = known[i]).required]]

\* the body POST /api/chat/questions answers with
QuestionsResponse(t, keys) == [questions |-> QuestionsFor(t, keys)]

Reverse(s) == [i \in 1..Len(s) |-> s[Len(s) + 1 - i]]

\* getQuestions handing the questions on last first
GetQuestionsReversed(templateId, missingKeys) ==
    Reverse(QuestionsResponse(templateId, missingKeys).questions)

\* api.getQuestions when the request succeeds: return data.questions
GetQuestions(templateId, missingKeys) ==
    QuestionsResponse(templateId, missingKeys).questions

\* ------------------------------------------------------------------------
\* State
\* ------------------------------------------------------------------------
VARIABLES
    messages,          \* useState<Message[]>
    input,             \* useState('')
    isLoading,         \* useState(false)
    currentTemplate,   \* useState<string | null>
    currentAnswers,    \* useState<Record<string, string>>
    pendingQuestions,  \* useState<Message['questions']>; << >> stands for null
    userQuery,         \* useState('')
    forms,             \* the QuestionForm instances on screen, with their state
    tasks,             \* async handlers suspended on an await
    requests,          \* the requests sent to the server, in order
    alerts,            \* the alert() dialogs raised, in order
    eventsLeft,        \* user-triggered handler runs still to come
    nSent,             \* history: number of queries sent to matchTemplate
    nMatched,          \* history: number of match responses with a best match
    reported,          \* history: per template, the missing list of its last match
    selected,          \* history: the query and epoch that selected currentTemplate
    review,            \* VariableReview: its props, its state and what it saved
    upload             \* FileUpload: its state, its callbacks and its requests

\* the state of ChatInterface
chat == << messages, input, isLoading, currentTemplate, currentAnswers,
           pendingQuestions, userQuery, forms, tasks, requests, alerts,
           eventsLeft, nSent, nMatched, reported, selected >>

\* the state of the components of the other pages
pages == << review, upload >>

vars == << chat, pages >>

\* A Message; id is left out, and of the display text only which text it is
\* (kind) and the variable keys written into it (contentKeys).  The fields
\* after `draft` are history: the handler that added the message, the query
\* it served (text and number) and the match response it came from.
Msg(type, kind) ==
    [type |-> type, kind |-> kind, contentKeys |-> {},
     templateMatch |-> NoTemplate,
     alternatives |-> << >>, questions |-> << >>, form |-> 0, draft |-> 0,
     by |-> "none", query |-> EmptyStr, epoch |-> 0, matchAlts |-> << >>,
     missing |-> << >>, prefilled |-> EmptyMap]

\* A request as the server sees it (api to user_query; query is the body of
\* a match request), with the history the properties need: the handler that
\* sent it, the keys currentAnswers held, the number of queries sent and of
\* best matches so far, the query (number and text) that selected the
\* template passed, the form submitted with the answers before and the batch,
\* and the missing list the last match reported for the template passed.
Req(api) ==
    [api |-> api, template_id |-> NoTemplate, keys |-> << >>,
     answers |-> EmptyMap, user_query |-> EmptyStr, query |-> EmptyStr,
     by |-> "none", held |-> {}, epoch |-> 0, tplEpoch |-> 0, matched |-> 0,
     form |-> 0, prev |-> EmptyMap, batch |-> EmptyMap, selQuery |-> EmptyStr,
     missing |-> << >>]

\* An async handler suspended on an await, with what its closure holds.
Task(h, pc) ==
    [h |-> h, pc |-> pc, userMessage |-> EmptyStr, capUserQuery |-> EmptyStr,
     capAnswers |-> EmptyMap, tpl |-> NoTemplate, answers |-> EmptyMap,
     keys |-> << >>, epoch |-> 0]

\* the system message a catch block adds
ErrorMsg(t) == [Msg("system", "error") EXCEPT !.by = t.h, !.epoch = t.epoch]

\* the state after the component is mounted, with n user events to come
Mounted(n) ==
    /\ messages = << >>
    /\ input = EmptyStr
    /\ isLoading = FALSE
    /\ currentTemplate = NoTemplate
    /\ currentAnswers = EmptyMap
    /\ pendingQuestions = << >>
    /\ userQuery = EmptyStr
    /\ forms = << >>
    /\ tasks = << >>
    /\ requests = << >>
    /\ alerts = << >>
    /\ eventsLeft = n
    /\ nSent = 0
    /\ nMatched = 0
    /\ reported = [t \in Range(Templates) |-> << >>]
    /\ selected = [query |-> EmptyStr, epoch |-> 0]

\* VariableReview and FileUpload are not on the chat page
NotShown == << >>
ChatPage == review = NotShown /\ upload = NotShown

Init == Mounted(MaxEvents) /\ ChatPage

InitLong == Mounted(LongEvents) /\ ChatPage

CanStart == eventsLeft > 0 /\ Len(tasks) < MaxTasks

\* ------------------------------------------------------------------------
\* ChatInterface: the chat input
\* ------------------------------------------------------------------------

\* onChange of the chat input (disabled while isLoading)
TypeInput(s) ==
    /\ ~isLoading
    /\ s # input
    /\ input' = s
    /\ UNCHANGED << messages, isLoading, currentTemplate, currentAnswers,
                    pendingQuestions, userQuery, forms, tasks, requests, alerts,
                    eventsLeft, nSent, nMatched, reported, selected >>
    /\ UNCHANGED pages

\* if (!input) return: the guard of handleSend with the trim forgotten
SendIgnoredNoTrim == input = EmptyStr \/ isLoading

\* if (!input.trim() || isLoading) return
SendIgnored == Trim(input) = EmptyStr \/ isLoading

\* handleSend when its guard returns at once
SendReturns ==
    UNCHANGED << messages, input, isLoading, currentTemplate, currentAnswers,
                 pendingQuestions, userQuery, forms, tasks, requests, alerts,
                 nSent, nMatched, reported, selected >>

\* handleSend past its guard, up to its first await
SendStarts ==
    /\ LET userMessage == Trim(input) IN
       /\ input' = EmptyStr
       /\ userQuery' = userMessage
       /\ messages' = Append(messages, [Msg("user", "query") EXCEPT !.query = userMessage])
       /\ IF StartsWithVars(userMessage) /\ currentTemplate # NoTemplate
          THEN /\ requests' = Append(requests,
                    [Req("template") EXCEPT !.template_id = currentTemplate,
                                            !.by = "send", !.epoch = nSent])
               /\ tasks' = Append(tasks,
                    [Task("send", "vars") EXCEPT !.userMessage = userMessage,
                                                 !.tpl = currentTemplate,
                                                 !.capAnswers = currentAnswers])
               /\ UNCHANGED << isLoading, nSent >>
          ELSE /\ isLoading' = TRUE
               /\ nSent' = nSent + 1
               /\ requests' = Append(requests,
                    [Req("match") EXCEPT !.query = userMessage, !.by = "send",
                                         !.epoch = nSent + 1])
               /\ tasks' = Append(tasks,
                    [Task("send", "match") EXCEPT !.userMessage = userMessage,
                                                  !.capUserQuery = userQuery,
                                                  !.epoch = nSent + 1])
    /\ UNCHANGED << currentTemplate, currentAnswers, pendingQuestions, forms,
                    alerts, nMatched, reported, selected >>

\* handleSend up to its first await: Enter in the chat input (disabled
\* while isLoading) or a click on Send
HandleSend ==
    /\ ~isLoading
    /\ CanStart
    /\ eventsLeft' = eventsLeft - 1
    /\ IF SendIgnored THEN SendReturns ELSE SendStarts
    /\ UNCHANGED pages

\* handleSend, /vars branch, after getTemplate settles
SendVarsResolve(i) ==
    /\ tasks[i].h = "send" /\ tasks[i].pc = "vars"
    /\ \E ok \in BOOLEAN :
         messages' = Append(messages,
            IF ok THEN [Msg("assistant", "vars") EXCEPT
                          !.by = "send",
                          !.contentKeys = Range(KeysOf(tasks[i].tpl))]
                  ELSE ErrorMsg(tasks[i]))
    /\ tasks' = RemoveAt(tasks, i)
    /\ UNCHANGED << input, isLoading, currentTemplate, currentAnswers,
                    pendingQuestions, userQuery, forms, requests, alerts,
                    eventsLeft, nSent, nMatched, reported, selected >>
    /\ UNCHANGED pages

\* The generateDraft request handleGenerateDraft(templateId, answers) sends
\* from a handler whose closure holds `query` as userQuery.
DraftRequest(templateId, answers, query) ==
    [Req("generate") EXCEPT !.template_id = templateId, !.answers = answers,
                            !.user_query = query]

\* the question form message and its QuestionForm
ShowQuestions(questions, t) ==
    /\ pendingQuestions' = questions
    /\ forms' = Append(forms, [questions |-> questions, answers |-> EmptyMap,
                               tpl |-> t.tpl, epoch |-> t.epoch])
    /\ messages' = Append(messages,
          [Msg("assistant", "questions") EXCEPT !.questions = questions,
                                                !.form = Len(forms) + 1,
                                                !.by = t.h,
                                                !.epoch = t.epoch])

\* handleSend after matchTemplate rejects, returning from the catch block
\* with the loading flag as it was
SendMatchFailedLoading(i) ==
    /\ messages' = Append(messages, ErrorMsg(tasks[i]))
    /\ tasks' = RemoveAt(tasks, i)
    /\ UNCHANGED << isLoading, currentTemplate, currentAnswers,
                    pendingQuestions, forms, requests, nMatched, reported,
                    selected >>

\* handleSend after matchTemplate rejects: the catch block, then line 147
SendMatchFailed(i) ==
    /\ messages' = Append(messages, ErrorMsg(tasks[i]))
    /\ isLoading' = FALSE
    /\ tasks' = RemoveAt(tasks, i)
    /\ UNCHANGED << currentTemplate, currentAnswers, pendingQuestions, forms,
                    requests, nMatched, reported, selected >>

\* handleSend when the match has no best_match, resetting the conversation
\* as it goes
SendNoBestResetting(i, r) ==
    /\ messages' = Append(messages,
          [Msg("assistant", "nomatch") EXCEPT !.by = "send",
                                              !.matchAlts = r.alternatives,
                                              !.epoch = tasks[i].epoch])
    /\ isLoading' = FALSE
    /\ tasks' = RemoveAt(tasks, i)
    /\ currentTemplate' = NoTemplate
    /\ currentAnswers' = EmptyMap
    /\ pendingQuestions' = << >>
    /\ UNCHANGED << forms, requests, nMatched, reported, selected >>

\* handleSend when the match has no best_match
SendNoBest(i, r) ==
    /\ messages' = Append(messages,
          [Msg("assistant", "nomatch") EXCEPT !.by = "send",
                                              !.matchAlts = r.alternatives,
                                              !.epoch = tasks[i].epoch])
    /\ isLoading' = FALSE
    /\ tasks' = RemoveAt(tasks, i)
    /\ UNCHANGED << currentTemplate, currentAnswers, pendingQuestions, forms,
                    requests, nMatched, reported, selected >>

\* matchResult.missing_variables.length > 1: an off-by-one in the test
NeedsQuestionsOffByOne(r) == Len(r.missing) > 1

\* matchResult.missing_variables.length > 0
NeedsQuestions(r) == Len(r.missing) > 0

\* handleSend when the match has a best_match, up to the next await
SendBest(i, r) ==
    LET t == tasks[i]
        prefilled == r.prefilled
    IN
    /\ currentAnswers' = prefilled
    /\ currentTemplate' = r.best
    /\ messages' = Append(messages,
          [Msg("assistant", "match") EXCEPT !.templateMatch = r.best,
                                            !.alternatives = r.alternatives,
                                            !.by = "send",
                                            !.matchAlts = r.alternatives,
                                            !.missing = r.missing,
                                            !.prefilled = prefilled,
                                            !.query = t.userMessage,
                                            !.epoch = t.epoch])
    /\ nMatched' = nMatched + 1
    /\ reported' = [reported EXCEPT ![r.best] = r.missing]
    /\ selected' = [query |-> t.userMessage, epoch |-> t.epoch]
    /\ IF NeedsQuestions(r)
       THEN /\ requests' = Append(requests,
                 [Req("questions") EXCEPT !.template_id = r.best,
                                          !.keys = r.missing, !.by = "send",
                                          !.held = Keys(prefilled),
                                          !.epoch = nSent, !.tplEpoch = t.epoch,
                                          !.missing = r.missing])
            /\ tasks' = [tasks EXCEPT ![i] =
                 [t EXCEPT !.pc = "questions", !.tpl = r.best,
                           !.answers = prefilled, !.keys = r.missing]]
       ELSE /\ requests' = Append(requests,
                 [DraftRequest(r.best, prefilled, t.capUserQuery) EXCEPT
                     !.by = "send", !.epoch = nSent, !.tplEpoch = t.epoch,
                     !.matched = nMatched + 1, !.selQuery = t.userMessage,
                     !.missing = r.missing])
            /\ tasks' = [tasks EXCEPT ![i] =
                 [t EXCEPT !.pc = "generate", !.tpl = r.best,
                           !.answers = prefilled]]
    /\ UNCHANGED << isLoading, pendingQuestions, forms >>

\* handleSend after matchTemplate settles
SendMatchResolve(i) ==
    /\ tasks[i].h = "send" /\ tasks[i].pc = "match"
    /\ \/ SendMatchFailed(i)
       \/ \E r \in MatchResponses(tasks[i].userMessage) :
            IF r.best = NoTemplate THEN SendNoBest(i, r) ELSE SendBest(i, r)
    /\ UNCHANGED << input, userQuery, alerts, eventsLeft, nSent >>
    /\ UNCHANGED pages

\* handleSend after getQuestions settles
SendQuestionsResolve(i) ==
    /\ tasks[i].h = "send" /\ tasks[i].pc = "questions"
    /\ LET t == tasks[i]
           questions == GetQuestions(t.tpl, t.keys)
       IN
       \/ \* rejected: the catch block, then line 147
          /\ messages' = Append(messages, ErrorMsg(t))
          /\ isLoading' = FALSE
          /\ tasks' = RemoveAt(tasks, i)
          /\ UNCHANGED << pendingQuestions, forms, requests >>
       \/ /\ Len(questions) > 0
          /\ ShowQuestions(questions, t)
          /\ isLoading' = FALSE
          /\ tasks' = RemoveAt(tasks, i)
          /\ UNCHANGED requests
       \/ \* "No questions needed, generate draft immediately"
          /\ ~(Len(questions) > 0)
          /\ requests' = Append(requests,
               [DraftRequest(t.tpl, t.answers, t.capUserQuery) EXCEPT
                   !.by = "send", !.epoch = nSent, !.tplEpoch = t.epoch,
                   !.matched = nMatched, !.selQuery = t.userMessage,
                   !.missing = t.keys])
          /\ tasks' = [tasks EXCEPT ![i] = [t EXCEPT !.pc = "generate"]]
          /\ UNCHANGED << messages, isLoading, pendingQuestions, forms >>
    /\ UNCHANGED << input, currentTemplate, currentAnswers, userQuery, alerts,
                    eventsLeft, nSent, nMatched, reported, selected >>
    /\ UNCHANGED pages

\* handleGenerateDraft after generateDraft settles, and the caller's
\* setIsLoading(false) that follows it
GenerateDraftDone(i) ==
    /\ \E ok \in BOOLEAN :
         messages' = Append(messages,
            IF ok THEN [Msg("assistant", "draft") EXCEPT !.draft = 1,
                                                         !.by = tasks[i].h,
                                                         !.epoch = tasks[i].epoch]
                  ELSE [Msg("system", "failed") EXCEPT !.by = tasks[i].h,
                                                       !.epoch = tasks[i].epoch])
    /\ isLoading' = FALSE
    /\ tasks' = RemoveAt(tasks, i)
    /\ UNCHANGED << input, currentTemplate, currentAnswers, pendingQuestions,
                    userQuery, forms, requests, alerts, eventsLeft, nSent,
                    nMatched, reported, selected >>
    /\ UNCHANGED pages

\* handleSend after handleGenerateDraft returns
SendGenerateResolve(i) ==
    /\ tasks[i].h = "send" /\ tasks[i].pc = "generate"
    /\ GenerateDraftDone(i)

\* ------------------------------------------------------------------------
\* QuestionForm and handleAnswerSubmit
\* ------------------------------------------------------------------------

\* !answers[key]?.trim()
Blank(answers, key) == ~Has(answers, key) \/ Trim(answers[key]) = EmptyStr

\* questions.filter(q => q.required && !answers[q.key]): the trim forgotten
MissingRequiredNoTrim(questions, answers) ==
    SelectSeq(questions, LAMBDA q : q.required /\ ~Has(answers, q.key))

\* questions.filter(q => q.required && !answers[q.key]?.trim())
MissingRequired(questions, answers) ==
    SelectSeq(questions, LAMBDA q : q.required /\ Blank(answers, q.key))

\* onChange of the fields of a question form: setAnswers(prev => ({ ...prev,
\* [q.key]: e.target.value })) for each field the user edits.  The form has
\* one field per question, and nothing but the form reads its answers.
Edit(answers, typed) ==
    [k \in AllKeys |-> IF Has(typed, k) THEN typed[k] ELSE answers[k]]

\* What the user can type into the fields of a form before a click.
Batches(questions) ==
    { b \in [AllKeys -> FormVals \cup {Undefined}] :
        \A k \in Keys(b) : \E j \in 1..Len(questions) : questions[j].key = k }

\* handleAnswerSubmit up to its await
HandleAnswerSubmit(f, answers) ==
    LET allAnswers == Spread(currentAnswers, answers) IN
    /\ currentAnswers' = allAnswers
    /\ pendingQuestions' = << >>
    /\ messages' = Append(messages,
          [Msg("user", "answers") EXCEPT !.form = f, !.by = "submit",
                                         !.contentKeys = Keys(answers)])
    /\ IF currentTemplate # NoTemplate
       THEN /\ isLoading' = TRUE
            /\ requests' = Append(requests,
                 [DraftRequest(currentTemplate, allAnswers, userQuery) EXCEPT
                     !.by = "submit", !.epoch = nSent,
                     !.tplEpoch = selected.epoch, !.matched = nMatched,
                     !.selQuery = selected.query, !.form = f,
                     !.prev = currentAnswers, !.batch = answers,
                     !.missing = reported[currentTemplate]])
            /\ tasks' = Append(tasks,
                 [Task("submit", "generate") EXCEPT !.tpl = currentTemplate,
                                                    !.answers = allAnswers,
                                                    !.epoch = selected.epoch])
       ELSE UNCHANGED << isLoading, requests, tasks >>
    /\ UNCHANGED alerts

\* QuestionForm.handleSubmit: the user edits fields of form f and clicks
\* its "Generate Draft" button
FormSubmit(f, typed) ==
    /\ CanStart
    /\ eventsLeft' = eventsLeft - 1
    /\ forms' = [forms EXCEPT ![f].answers = Edit(@, typed)]
    /\ LET questions == forms[f].questions
           answers == Edit(forms[f].answers, typed)
           missing == MissingRequired(questions, answers)
       IN
       IF Len(missing) > 0
       THEN /\ alerts' = Append(alerts,
                 [form |-> f, batch |-> answers,
                  keys |-> [j \in 1..Len(missing) |-> missing[j].key]])
            /\ UNCHANGED << messages, isLoading, currentAnswers,
                            pendingQuestions, tasks, requests >>
       ELSE HandleAnswerSubmit(f, answers)
    /\ UNCHANGED << input, currentTemplate, userQuery, nSent, nMatched,
                    reported, selected >>
    /\ UNCHANGED pages

\* handleAnswerSubmit after handleGenerateDraft returns
SubmitGenerateResolve(i) ==
    /\ tasks[i].h = "submit" /\ tasks[i].pc = "generate"
    /\ GenerateDraftDone(i)

\* ------------------------------------------------------------------------
\* handleUseTemplate
\* ------------------------------------------------------------------------

\* The template buttons a message renders: "Use This Template" and the
\* alternatives, both inside the templateMatch card.
Selectable(m) ==
    IF m.templateMatch # NoTemplate
    THEN {m.templateMatch} \cup Range(m.alternatives)
    ELSE {}

\* handleUseTemplate up to its first await
HandleUseTemplate(m, templateId) ==
    /\ CanStart
    /\ templateId \in Selectable(messages[m])
    /\ currentTemplate' = templateId
    /\ selected' = [query |-> messages[m].query, epoch |-> messages[m].epoch]
    /\ requests' = Append(requests,
          [Req("template") EXCEPT !.template_id = templateId, !.by = "use",
                                  !.epoch = nSent])
    /\ tasks' = Append(tasks,
          [Task("use", "template") EXCEPT !.tpl = templateId,
                                          !.epoch = messages[m].epoch])
    /\ eventsLeft' = eventsLeft - 1
    /\ UNCHANGED << messages, input, isLoading, currentAnswers,
                    pendingQuestions, userQuery, forms, alerts, nSent, nMatched,
                    reported >>
    /\ UNCHANGED pages

\* handleUseTemplate after getTemplate settles
UseTemplateResolve(i) ==
    /\ tasks[i].h = "use" /\ tasks[i].pc = "template"
    /\ LET t == tasks[i]
           keys == KeysOf(t.tpl)
       IN
       \/ /\ messages' = Append(messages, ErrorMsg(t))
          /\ tasks' = RemoveAt(tasks, i)
          /\ UNCHANGED requests
       \/ /\ requests' = Append(requests,
               [Req("questions") EXCEPT !.template_id = t.tpl, !.keys = keys,
                                        !.by = "use",
                                        !.held = Keys(currentAnswers),
                                        !.epoch = nSent, !.tplEpoch = t.epoch])
          /\ tasks' = [tasks EXCEPT ![i] = [t EXCEPT !.pc = "questions",
                                                     !.keys = keys]]
          /\ UNCHANGED messages
    /\ UNCHANGED << input, isLoading, currentTemplate, currentAnswers,
                    pendingQuestions, userQuery, forms, alerts, eventsLeft, nSent,
                    nMatched, reported, selected >>
    /\ UNCHANGED pages

\* handleUseTemplate after getQuestions settles, written like handleSend:
\* an empty question list goes on to handleGenerateDraft
UseQuestionsResolveDrafting(i) ==
    /\ tasks[i].h = "use" /\ tasks[i].pc = "questions"
    /\ LET t == tasks[i]
           questions == GetQuestions(t.tpl, t.keys)
       IN
       \/ /\ messages' = Append(messages, ErrorMsg(t))
          /\ UNCHANGED << pendingQuestions, forms, requests >>
       \/ IF Len(questions) > 0
          THEN ShowQuestions(questions, t) /\ UNCHANGED requests
          ELSE /\ requests' = Append(requests,
                    [DraftRequest(t.tpl, currentAnswers, userQuery) EXCEPT
                        !.by = "use", !.epoch = nSent, !.tplEpoch = t.epoch])
               /\ UNCHANGED << messages, pendingQuestions, forms >>
    /\ tasks' = RemoveAt(tasks, i)
    /\ UNCHANGED << input, isLoading, currentTemplate, currentAnswers,
                    userQuery, alerts, eventsLeft, nSent, nMatched,
                    reported, selected >>
    /\ UNCHANGED pages

\* handleUseTemplate after getQuestions settles
UseQuestionsResolve(i) ==
    /\ tasks[i].h = "use" /\ tasks[i].pc = "questions"
    /\ LET t == tasks[i]
           questions == GetQuestions(t.tpl, t.keys)
       IN
       \/ /\ messages' = Append(messages, ErrorMsg(t))
          /\ UNCHANGED << pendingQuestions, forms >>
       \/ IF Len(questions) > 0
          THEN ShowQuestions(questions, t)
          ELSE UNCHANGED << messages, pendingQuestions, forms >>
    /\ tasks' = RemoveAt(tasks, i)
    /\ UNCHANGED << input, isLoading, currentTemplate, currentAnswers,
                    userQuery, requests, alerts, eventsLeft, nSent, nMatched,
                    reported, selected >>
    /\ UNCHANGED pages

\* ------------------------------------------------------------------------
\* VariableReview (lib/api.ts).  Text is a sequence of characters here:
\* a letter and the two braces.  title, docType and tags are left out.
\* ------------------------------------------------------------------------
LB == "{"
RB == "}"
Letters == {"a"}
Chars == Letters \cup {LB, RB}

\* the strings of at most n characters
StringsUpTo(n) == UNION { [1..k -> Chars] : k \in 0..n }

\* variable keys: identifiers, unique within a list
VarKeys == { <<"a">>, <<"a", "a">> }

\* what the user can type into a Label field
Labels == { <<"a">> }

\* `{{${key}}}`
PlaceholderFor(key) == <<LB, LB>> \o key \o <<RB, RB>>

\* s.startsWith(pat)
StartsWith(s, pat) == Len(s) >= Len(pat) /\ SubSeq(s, 1, Len(pat)) = pat

\* s.replace(new RegExp(pat, 'g'), rep) for a pattern of literal characters
\* (a letter or a lone brace matches itself) and a replacement without `$`:
\* the matches are found left to right in s, and do not overlap
RECURSIVE ReplaceAll(_, _, _)
ReplaceAll(s, pat, rep) ==
    IF s = << >> THEN << >>
    ELSE IF StartsWith(s, pat)
         THEN rep \o ReplaceAll(SubSeq(s, Len(pat) + 1, Len(s)), pat, rep)
         ELSE <<Head(s)>> \o ReplaceAll(Tail(s), pat, rep)

\* the forEach of handleSave, from variable number i on
RECURSIVE ReplaceExamples(_, _, _)
ReplaceExamples(bodyMd, variables, i) ==
    IF i > Len(variables) THEN bodyMd
    ELSE LET v == variables[i] IN
         ReplaceExamples(IF v.example # EmptyStr
                         THEN ReplaceAll(bodyMd, v.example, PlaceholderFor(v.key))
                         ELSE bodyMd,
                         variables, i + 1)

\* the variable lists the upload can detect: keys are unique
VariableLists ==
    { vs \in UNION { [1..n -> [key : VarKeys, label : {EmptyStr},
                               example : StringsUpTo(MaxExample)]] : n \in 0..MaxVars } :
        \A i, j \in 1..Len(vs) : i # j => vs[i].key # vs[j].key }

\* the {{key}} placeholders of a text: the keys they name
Placeholders(s) ==
    { SubSeq(s, i + 2, j - 2) : <<i, j>> \in
        { p \in (1..Len(s)) \X (1..Len(s)) :
            /\ p[2] >= p[1] + 4
            /\ s[p[1]] = LB /\ s[p[1] + 1] = LB
            /\ s[p[2] - 1] = RB /\ s[p[2]] = RB
            /\ \A k \in (p[1] + 2)..(p[2] - 2) : s[k] \in Letters } }

\* the component mounted with its props: the extracted text, which holds no
\* placeholder, and the detected variables.  `saved` is history: what the
\* last step passed to onSave, if it was a handleSave.
InitReview ==
    /\ Mounted(0)
    /\ upload = NotShown
    /\ \E text \in StringsUpTo(MaxBody) : \E vs \in VariableLists :
          /\ Placeholders(text) = {}
          /\ review = [extractedTextPreview |-> text, variables |-> vs,
                       saved |-> << >>]

\* handleVariableChange(index, field, value), writing the key whatever the
\* field
HandleVariableChangeKey(index, field, value) ==
    /\ review' = [review EXCEPT !.variables[index].key = value,
                                !.saved = << >>]
    /\ UNCHANGED << chat, upload >>

\* handleVariableChange(index, field, value)
HandleVariableChange(index, field, value) ==
    /\ review' = [review EXCEPT !.variables[index][field] = value,
                                !.saved = << >>]
    /\ UNCHANGED << chat, upload >>

\* handleRemoveVariable(index)
HandleRemoveVariable(index) ==
    /\ review' = [review EXCEPT !.variables = RemoveAt(@, index),
                                !.saved = << >>]
    /\ UNCHANGED << chat, upload >>

\* handleSave: what it passes to onSave
HandleSave ==
    /\ review' = [review EXCEPT !.saved =
          << [variables |-> review.variables,
              bodyMd |-> ReplaceExamples(review.extractedTextPreview,
                                         review.variables, 1)] >>]
    /\ UNCHANGED << chat, upload >>

NextReview ==
    \/ \E index \in 1..Len(review.variables) :
          \/ \E value \in Labels : HandleVariableChange(index, "label", value)
          \/ \E value \in StringsUpTo(MaxExample) :
                HandleVariableChange(index, "example", value)
    \/ \E index \in 1..Len(review.variables) : HandleRemoveVariable(index)
    \/ HandleSave

SpecReview == InitReview /\ [][NextReview]_vars

\* ------------------------------------------------------------------------
\* FileUpload (lib/api.ts).  A file name is a sequence of characters; "pdf",
\* "PDF" and "docx" stand for those runs of letters, "I." for the capital
\* dotted I (U+0130), whose lower case is two characters: "i" and the
\* combining dot "^." (U+0307).
\* ------------------------------------------------------------------------
DOT == "."
NameChars == { DOT, "pdf", "PDF", "docx", "a", "I." }

\* String.prototype.toLowerCase, character by character
LowerOf(c) ==
    CASE c = "PDF" -> <<"pdf">>
      [] c = "I." -> <<"i", "^.">>
      [] OTHER -> <<c>>

RECURSIVE ToLowerCase(_)
ToLowerCase(s) ==
    IF s = << >> THEN << >> ELSE LowerOf(Head(s)) \o ToLowerCase(Tail(s))

\* s.lastIndexOf('.'): an index from 0, or -1
LastIndexOfDot(s) ==
    LET at == { i \in 1..Len(s) : s[i] = DOT }
    IN  IF at = {} THEN -1 ELSE (CHOOSE i \in at : \A j \in at : j <= i) - 1

\* s.slice(start)
Slice(s, start) ==
    LET n == Len(s)
        from == IF start < 0 THEN (IF n + start < 0 THEN 0 ELSE n + start)
                ELSE (IF start > n THEN n ELSE start)
    IN  SubSeq(s, from + 1, n)

\* const allowedExtensions = ['.docx', '.pdf']
AllowedExtensions == { <<DOT, "docx">>, <<DOT, "pdf">> }

\* file.name.toLowerCase().slice(file.name.lastIndexOf('.'))
ExtensionOf(name) == Slice(ToLowerCase(name), LastIndexOfDot(name))

\* "max 10MB", in bytes
TenMB == 10 * 1024 * 1024

\* the files the user can drop or select
Files ==
    [name : UNION { [1..k -> NameChars] : k \in 0..MaxName },
     size : {1, TenMB, TenMB + 1}]

\* The component mounted.  `call` is history: the file of the last
\* uploadFile call and what that call has done so far; `left` bounds the
\* number of files given.
InitUpload ==
    /\ Mounted(0)
    /\ review = NotShown
    /\ upload = [isDragging |-> FALSE, isUploading |-> FALSE, call |-> << >>,
                 completed |-> FALSE, left |-> MaxUploads]

HandleDragEnter ==
    /\ ~upload.isUploading /\ ~upload.completed
    /\ ~upload.isDragging
    /\ upload' = [upload EXCEPT !.isDragging = TRUE]
    /\ UNCHANGED << chat, review >>

HandleDragLeave ==
    /\ ~upload.isUploading /\ ~upload.completed
    /\ upload.isDragging
    /\ upload' = [upload EXCEPT !.isDragging = FALSE]
    /\ UNCHANGED << chat, review >>

\* uploadFile(file) up to its await; the record is the state it leaves
UploadFile(file) ==
    LET called == [file |-> file, onError |-> 0, onUploadStart |-> 0,
                   onUploadComplete |-> 0, requests |-> 0]
    IN
    IF ExtensionOf(file.name) \notin AllowedExtensions
    THEN [upload EXCEPT !.call = << [called EXCEPT !.onError = 1] >>]
    ELSE [upload EXCEPT !.isUploading = TRUE,
                        !.call = << [called EXCEPT !.onUploadStart = 1,
                                                   !.requests = 1] >>]

\* handleDrop and handleFileSelect with files[0] = file; the drop zone
\* takes no pointer events while isUploading
HandleDrop(file) ==
    /\ ~upload.isUploading /\ ~upload.completed
    /\ upload.left > 0
    /\ upload.isDragging
    /\ upload' = [UploadFile(file) EXCEPT !.isDragging = FALSE,
                                          !.left = upload.left - 1]
    /\ UNCHANGED << chat, review >>

HandleFileSelect(file) ==
    /\ ~upload.isUploading /\ ~upload.completed
    /\ upload.left > 0
    /\ upload' = [UploadFile(file) EXCEPT !.left = upload.left - 1]
    /\ UNCHANGED << chat, review >>

\* uploadFile after the fetch settles: onUploadComplete (the page then
\* shows VariableReview instead) or onError, and the finally block
UploadSettle ==
    /\ upload.isUploading
    /\ \E ok \in BOOLEAN :
         upload' = [upload EXCEPT
            !.isUploading = FALSE,
            !.completed = ok,
            !.call[1].onUploadComplete = IF ok THEN @ + 1 ELSE @,
            !.call[1].onError = IF ok THEN @ ELSE @ + 1]
    /\ UNCHANGED << chat, review >>

NextUpload ==
    \/ HandleDragEnter
    \/ HandleDragLeave
    \/ \E file \in Files : HandleDrop(file)
    \/ \E file \in Files : HandleFileSelect(file)
    \/ UploadSettle

SpecUpload == InitUpload /\ [][NextUpload]_vars

\* ------------------------------------------------------------------------
\* Specification
\* ------------------------------------------------------------------------
Next ==
    \/ \E s \in Inputs : TypeInput(s)
    \/ HandleSend
    \/ \E i \in 1..Len(tasks) : SendVarsResolve(i)
    \/ \E i \in 1..Len(tasks) : SendMatchResolve(i)
    \/ \E i \in 1..Len(tasks) : SendQuestionsResolve(i)
    \/ \E i \in 1..Len(tasks) : SendGenerateResolve(i)
    \/ \E f \in 1..Len(forms) : \E typed \in Batches(forms[f].questions) :
          FormSubmit(f, typed)
    \/ \E i \in 1..Len(tasks) : SubmitGenerateResolve(i)
    \/ \E m \in 1..Len(messages) : \E t \in Range(Templates) :
          HandleUseTemplate(m, t)
    \/ \E i \in 1..Len(tasks) : UseTemplateResolve(i)
    \/ \E i \in 1..Len(tasks) : UseQuestionsResolve(i)

Spec == Init /\ [][Next]_vars

\* the same program, in sessions one user event longer
SpecLong == InitLong /\ [][Next]_vars

\* The chat after one handleSend has run to its end: the query "a" was
\* matched to T1 with nothing prefilled and the form asking T1's two keys
\* is on screen.
AskedQuery == <<"a">>
AskedMatch ==
    [best |-> "T1", alternatives |-> AlternativesOf("T1"),
     prefilled |-> EmptyMap, missing |-> MissingOf("T1", {})]
AskedMessages ==
    LET r == AskedMatch IN
    << [Msg("user", "query") EXCEPT !.query = AskedQuery],
       [Msg("assistant", "match") EXCEPT !.templateMatch = r.best,
                                         !.alternatives = r.alternatives,
                                         !.by = "send",
                                         !.matchAlts = r.alternatives,
                                         !.missing = r.missing,
                                         !.prefilled = r.prefilled,
                                         !.query = AskedQuery,
                                         !.epoch = 1],
       [Msg("assistant", "questions") EXCEPT
           !.questions = GetQuestions(r.best, r.missing),
           !.form = 1, !.by = "send", !.epoch = 1] >>
AskedRequests ==
    LET r == AskedMatch IN
    << [Req("match") EXCEPT !.query = AskedQuery, !.by = "send", !.epoch = 1],
       [Req("questions") EXCEPT !.template_id = r.best,
                                !.keys = r.missing, !.by = "send",
                                !.held = Keys(r.prefilled),
                                !.epoch = 1, !.tplEpoch = 1,
                                !.missing = r.missing] >>

\* what the user then typed into that form
AskedAnswers ==
    [k \in AllKeys |->
        IF k \in Range(AskedMatch.missing) THEN <<"x">> ELSE Undefined]

\* The chat after that, when the user has sent the query "a" again and,
\* its matchTemplate request in flight, has filled in the form of the first
\* query and clicked its "Generate Draft" button: n user events are to
\* come.
AskedAndSent(n) ==
    LET r == AskedMatch
        questions == GetQuestions(r.best, r.missing)
        allAnswers == Spread(r.prefilled, AskedAnswers)
    IN
    /\ currentTemplate = r.best
    /\ currentAnswers = allAnswers
    /\ pendingQuestions = << >>
    /\ userQuery = AskedQuery
    /\ forms = << [questions |-> questions, answers |-> AskedAnswers,
                   tpl |-> r.best, epoch |-> 1] >>
    /\ alerts = << >>
    /\ nMatched = 1
    /\ reported = [t \in Range(Templates) |->
                      IF t = r.best THEN r.missing ELSE << >>]
    /\ selected = [query |-> AskedQuery, epoch |-> 1]
    /\ messages = AskedMessages \o
          << [Msg("user", "query") EXCEPT !.query = AskedQuery],
             [Msg("user", "answers") EXCEPT !.form = 1, !.by = "submit",
                                            !.contentKeys = Keys(AskedAnswers)] >>
    /\ requests = AskedRequests \o
          << [Req("match") EXCEPT !.query = AskedQuery,
                                  !.by = "send", !.epoch = 2],
             [DraftRequest(r.best, allAnswers, AskedQuery) EXCEPT
                 !.by = "submit", !.epoch = 2, !.tplEpoch = 1, !.matched = 1,
                 !.selQuery = AskedQuery, !.form = 1, !.prev = r.prefilled,
                 !.batch = AskedAnswers, !.missing = r.missing] >>
    /\ tasks = << [Task("send", "match") EXCEPT !.userMessage = AskedQuery,
                                                !.capUserQuery = AskedQuery,
                                                !.epoch = 2],
                  [Task("submit", "generate") EXCEPT !.tpl = r.best,
                                                     !.answers = allAnswers,
                                                     !.epoch = 1] >>
    /\ input = EmptyStr
    /\ isLoading = TRUE
    /\ nSent = 2
    /\ eventsLeft = n

InitAsked == AskedAndSent(MaxEvents - 1) /\ ChatPage

\* the same program from that state on
SpecAsked == InitAsked /\ [][Next]_vars

\* a request settles (resolves or rejects) and the handler awaiting it goes on
Settle(i) ==
    \/ SendVarsResolve(i)
    \/ SendMatchResolve(i)
    \/ SendQuestionsResolve(i)
    \/ SendGenerateResolve(i)
    \/ SubmitGenerateResolve(i)
    \/ UseTemplateResolve(i)
    \/ UseQuestionsResolve(i)

\* the same program when every request eventually returns; the user is free
\* to stop at any time
SpecFair ==
    /\ Init
    /\ [][Next]_vars
    /\ \A i \in 1..MaxTasks : WF_vars(i \in 1..Len(tasks) /\ Settle(i))

\* ------------------------------------------------------------------------
\* Properties
\* ------------------------------------------------------------------------
Last(s) == s[Len(s)]

\* the generateDraft and getQuestions requests sent so far
Generates == { i \in 1..Len(requests) : requests[i].api = "generate" }
Asks == { i \in 1..Len(requests) : requests[i].api = "questions" }

\* the handleSend that sent query number e is still suspended
SendPending(e) == \E i \in 1..Len(tasks) : tasks[i].h = "send" /\ tasks[i].epoch = e

\* what the handleSend of query number e has done after its match
AsksOfSend(e) ==
    { i \in Asks : requests[i].by = "send" /\ requests[i].tplEpoch = e }
GeneratesOfSend(e) ==
    { i \in Generates : requests[i].by = "send" /\ requests[i].tplEpoch = e }
FormsOfSend(e) ==
    { j \in 1..Len(messages) : /\ messages[j].kind = "questions"
                               /\ messages[j].by = "send"
                               /\ messages[j].epoch = e }
ErrorsOfSend(e) ==
    { j \in 1..Len(messages) : /\ messages[j].kind = "error"
                               /\ messages[j].by = "send"
                               /\ messages[j].epoch = e }
MatchMessages == { j \in 1..Len(messages) : messages[j].kind = "match" }

\* C1 as stated: once handleSend has finished after a best match, a match
\* with missing variables has led to a question form and to no generateDraft
\* of that handleSend, and a match with none has led to one generateDraft
\* with the prefilled values; nothing else happens after a best match.
C1_FormOrDraftOnly ==
    \A j \in MatchMessages :
        LET m == messages[j] IN
        ~SendPending(m.epoch) =>
            IF Len(m.missing) > 0
            THEN FormsOfSend(m.epoch) # {} /\ GeneratesOfSend(m.epoch) = {}
            ELSE /\ FormsOfSend(m.epoch) = {}
                 /\ \E i \in GeneratesOfSend(m.epoch) :
                       /\ requests[i].template_id = m.templateMatch
                       /\ requests[i].answers = m.prefilled

\* C1 amended: after a best match with missing variables handleSend asks
\* getQuestions once for exactly those keys, and then either shows one
\* question form and requests no draft, or (empty question list) requests a
\* draft with the prefilled values, or (request rejected) shows an error
\* and neither form nor draft; after a best match with no missing variable
\* it asks no question and requests one draft with the prefilled values.
C1_TransitionsOutOfBestMatch ==
    \A j \in MatchMessages :
        LET m == messages[j]
            e == m.epoch
            drafts == GeneratesOfSend(e)
        IN
        /\ \A i \in drafts : /\ requests[i].template_id = m.templateMatch
                             /\ requests[i].answers = m.prefilled
        /\ Cardinality(drafts) <= 1
        /\ IF Len(m.missing) > 0
           THEN /\ Cardinality(AsksOfSend(e)) = 1
                /\ \A i \in AsksOfSend(e) :
                      /\ requests[i].template_id = m.templateMatch
                      /\ requests[i].keys = m.missing
                /\ Cardinality(FormsOfSend(e)) <= 1
                /\ FormsOfSend(e) # {} => drafts = {} /\ ErrorsOfSend(e) = {}
                /\ ErrorsOfSend(e) # {} => drafts = {}
                /\ drafts # {} => QuestionsFor(m.templateMatch, m.missing) = << >>
                /\ ~SendPending(e) =>
                      FormsOfSend(e) # {} \/ drafts # {} \/ ErrorsOfSend(e) # {}
           ELSE /\ AsksOfSend(e) = {}
                /\ FormsOfSend(e) = {}
                /\ Cardinality(drafts) = 1

\* C1 witness: both transitions have been taken, a form after a match with
\* missing variables and a direct draft after a match with none.
C1_Witness ==
    /\ \E j \in MatchMessages :
          Len(messages[j].missing) > 0 /\ FormsOfSend(messages[j].epoch) # {}
    /\ \E j \in MatchMessages :
          Len(messages[j].missing) = 0 /\ GeneratesOfSend(messages[j].epoch) # {}

\* C2 as stated: in every generateDraft request, each key that the last
\* match for the template passed reported missing has a non-blank answer.
C2_NoDraftWithMissingKey ==
    \A i \in Generates :
        \A k \in Range(requests[i].missing) : ~Blank(requests[i].answers, k)

\* the required keys a form asks
RequiredOf(f) ==
    { forms[f].questions[j].key : j \in
        { n \in 1..Len(forms[f].questions) : forms[f].questions[n].required } }

\* C3 as stated: a batch that answers some of a form's required keys is
\* accepted, so no alert ever rejects a batch in which a required key of
\* the form has an answer.
C3_PartialBatchAccepted ==
    \A i \in 1..Len(alerts) :
        \A k \in RequiredOf(alerts[i].form) : Blank(alerts[i].batch, k)

\* a step of QuestionForm.handleSubmit that raised the alert
SubmitRejected ==
    /\ Len(alerts') = Len(alerts) + 1
    /\ LET a == Last(alerts') IN
       /\ Len(a.keys) > 0
       /\ Range(a.keys) = { k \in RequiredOf(a.form) : Blank(a.batch, k) }
       /\ a.batch = forms'[a.form].answers
    /\ UNCHANGED << messages, input, isLoading, currentTemplate, currentAnswers,
                    pendingQuestions, userQuery, tasks, requests >>

\* a step of QuestionForm.handleSubmit that went on to handleAnswerSubmit
SubmitAccepted ==
    LET f == Last(messages').form
        batch == forms'[f].answers
    IN
    /\ \A k \in RequiredOf(f) : ~Blank(batch, k)
    /\ \A k \in AllKeys :
          currentAnswers'[k] = IF Has(batch, k) THEN batch[k] ELSE currentAnswers[k]
    /\ pendingQuestions' = << >>
    /\ alerts' = alerts
    /\ currentTemplate # NoTemplate =>
          /\ Len(requests') = Len(requests) + 1
          /\ Last(requests').api = "generate"
          /\ Last(requests').answers = currentAnswers'
          /\ isLoading'

\* C3 amended: a batch that leaves any asked required key blank (absent or
\* whitespace only) is rejected with an alert naming those keys and changes
\* nothing else: no value is merged, no message added, no draft requested.
\* A batch that answers every asked required key is merged into the
\* conversation's answers, clears pendingQuestions and requests the draft
\* at once; missing keys are not recomputed and collection does not go on.
C3_BatchRejectedOrDrafted ==
    [][ /\ alerts' # alerts => SubmitRejected
        /\ (Len(messages') > Len(messages) /\ Last(messages').kind = "answers")
              => SubmitAccepted ]_vars

\* C3 witness: a batch that answered one required key of its form and left
\* another one blank has been rejected.
C3_Witness ==
    \E i \in 1..Len(alerts) :
        /\ \E k \in RequiredOf(alerts[i].form) : ~Blank(alerts[i].batch, k)
        /\ \E k \in RequiredOf(alerts[i].form) : Blank(alerts[i].batch, k)

\* C4 as stated: no getQuestions request lists a key for which the
\* conversation's answers already hold a value.
C4_AnsweredKeyNeverAsked ==
    \A i \in Asks : Range(requests[i].keys) \cap requests[i].held = {}

\* the generateDraft requests sent by handleAnswerSubmit
SubmitGenerates == { i \in Generates : requests[i].by = "submit" }

\* C5: the answers handleAnswerSubmit passes to generateDraft are the
\* previous answers overridden by the batch: a key of the batch carries the
\* batch's value, any other key keeps the value it had, if any.
C5_AnswersAccumulate ==
    \A i \in SubmitGenerates :
        LET r == requests[i] IN
        \A k \in AllKeys :
            /\ Has(r.batch, k) => r.answers[k] = r.batch[k]
            /\ ~Has(r.batch, k) => r.answers[k] = r.prev[k]

\* C5 witness: a submission whose batch left a previously held key out and
\* whose draft request still carried that key's value.
C5_Witness ==
    \E i \in SubmitGenerates :
        \E k \in AllKeys : /\ Has(requests[i].prev, k)
                           /\ ~Has(requests[i].batch, k)
                           /\ Has(requests[i].answers, k)

\* C6 as stated: at most one generateDraft request is sent per matched
\* query.
C6_OneDraftPerMatch ==
    \A i, j \in Generates : i # j => requests[i].matched # requests[j].matched

\* C7 as stated: every generateDraft request passes a template selected by
\* the query sent last, and answers of a form shown for that query.
C7_FreshConversationPerQuery ==
    \A i \in Generates :
        LET r == requests[i] IN
        /\ r.tplEpoch = r.epoch
        /\ r.form # 0 => forms[r.form].epoch = r.epoch

\* C8 as stated: the user_query of every generateDraft request is the query
\* that was sent to matchTemplate in the request that selected the template.
C8_UserQueryIsMatchedQuery ==
    \A i \in Generates : requests[i].user_query = requests[i].selQuery

\* C9 as stated: a message for a match with no best candidate offers every
\* alternative of that match as a selectable template.
C9_AlternativesSelectable ==
    \A j \in 1..Len(messages) :
        messages[j].kind = "nomatch" =>
            Range(messages[j].matchAlts) \subseteq Selectable(messages[j])

\* C10: the step of handleSend for a match with no best candidate appends
\* exactly one assistant message, sets isLoading to false, sends no request
\* and leaves currentTemplate, currentAnswers and pendingQuestions as they
\* were.
C10_NoBestFrame ==
    [][ (Len(messages') > Len(messages) /\ Last(messages').kind = "nomatch") =>
           /\ Len(messages') = Len(messages) + 1
           /\ SubSeq(messages', 1, Len(messages)) = messages
           /\ Last(messages').type = "assistant"
           /\ isLoading' = FALSE
           /\ requests' = requests
           /\ UNCHANGED << currentTemplate, currentAnswers, pendingQuestions >>
      ]_vars

\* C10 witness: a match with no best candidate has been answered while a
\* template was selected, answers were held and questions were pending.
C10_Witness ==
    /\ Len(messages) > 0
    /\ Last(messages).kind = "nomatch"
    /\ ~isLoading
    /\ currentTemplate # NoTemplate
    /\ Keys(currentAnswers) # {}
    /\ pendingQuestions # << >>

\* a step in which a user event was handled
UserEvent == eventsLeft' < eventsLeft

\* a user event that was a click in a question form or on a template button
FormOrTemplateEvent ==
    \/ forms' # forms
    \/ alerts' # alerts
    \/ Len(messages') > Len(messages) /\ Last(messages').kind = "answers"
    \/ Len(requests') > Len(requests) /\ Last(requests').by = "use"

\* C11: every query passed to matchTemplate is non-empty after trimming,
\* and a send of blank or whitespace-only input appends no message, sends no
\* request and changes no state of the component.
C11_BlankSendIgnored ==
    [][ /\ (Len(requests') > Len(requests) /\ Last(requests').api = "match")
              => /\ Trim(Last(requests').query) # EmptyStr
                 /\ Trim(input) # EmptyStr
        /\ (UserEvent /\ ~FormOrTemplateEvent /\ Trim(input) = EmptyStr)
              => UNCHANGED << messages, input, isLoading, currentTemplate,
                              currentAnswers, pendingQuestions, userQuery,
                              forms, tasks, requests, alerts >>
      ]_vars

\* C11 witness: whitespace-only input has been sent, and the chat is as it
\* was when the component was mounted.
C11_Witness ==
    /\ eventsLeft < MaxEvents
    /\ input # EmptyStr /\ Trim(input) = EmptyStr
    /\ messages = << >> /\ requests = << >> /\ alerts = << >>

UseSelections ==
    { i \in 1..Len(requests) : requests[i].by = "use" /\ requests[i].api = "template" }
UseResponses ==
    { j \in 1..Len(messages) : /\ messages[j].by = "use"
                               /\ messages[j].kind \in {"questions", "draft", "error", "failed"} }

\* C13 as stated: when every request eventually returns, each template
\* selection is eventually followed by a question form, a draft or an error
\* message of its handleUseTemplate in the chat.
C13_SelectionNeverStalls ==
    \A n \in 1..LongEvents :
        (Cardinality(UseSelections) >= n) ~> (Cardinality(UseResponses) >= n)

\* C14: in what handleSave passes to onSave, every {{key}} placeholder of
\* bodyMd names the key of exactly one variable of the list passed with it.
C14_SavedSchemaConsistent ==
    review # NotShown =>
       \A i \in 1..Len(review.saved) :
          LET data == review.saved[i] IN
          \A key \in Placeholders(data.bodyMd) :
             Cardinality({ n \in 1..Len(data.variables) :
                             data.variables[n].key = key }) = 1

\* C14 witness: handleSave has passed on one variable, whose label was
\* edited, and a body with a placeholder made from an extracted text that
\* holds a brace of its own.
C14_Witness ==
    /\ review # NotShown
    /\ review.saved # << >>
    /\ Placeholders(review.saved[1].bodyMd) # {}
    /\ \E i \in 1..Len(review.extractedTextPreview) :
          review.extractedTextPreview[i] \in {LB, RB}
    /\ Len(review.saved[1].variables) = 1
    /\ review.saved[1].variables[1].label # EmptyStr

\* the part of a file name from its last '.' on, lower-cased; << >> for a
\* name without a dot
LoweredSuffix(name) ==
    IF LastIndexOfDot(name) < 0 THEN << >>
    ELSE ToLowerCase(SubSeq(name, LastIndexOfDot(name) + 1, Len(name)))

\* C15 as stated: uploadFile sends the file exactly when the part of its
\* name from the last '.' on, lower-cased, is '.docx' or '.pdf'; otherwise
\* it calls onError once, never onUploadStart, and sends nothing.
C15_SentIffDocxOrPdf ==
    (upload # NotShown /\ upload.call # << >>) =>
        LET c == upload.call[1] IN
        IF LoweredSuffix(c.file.name) \in AllowedExtensions
        THEN c.requests = 1
        ELSE c.onError = 1 /\ c.onUploadStart = 0 /\ c.requests = 0

\* C16 as stated: no file larger than 10MB is sent to the upload endpoint.
C16_NoUploadOverTenMB ==
    (upload # NotShown /\ upload.call # << >>) =>
        (upload.call[1].requests > 0 => upload.call[1].file.size <= TenMB)

\* C17 as stated: no message that answer submission, /vars or question
\* display appends to the chat has a raw variable key in its text.
C17_NoRawKeyInChat ==
    \A j \in 1..Len(messages) :
        messages[j].kind \in {"answers", "vars", "questions"} =>
            messages[j].contentKeys = {}

\* C18 as stated: no query that starts with '/vars' is ever passed to
\* matchTemplate.
C18_VarsNeverMatched ==
    \A i \in 1..Len(requests) :
        requests[i].api = "match" => ~StartsWithVars(requests[i].query)

\* the keys of a question list, in its order
KeysAsked(questions) == [n \in 1..Len(questions) |-> questions[n].key]

\* C19: for every question form handleSend shows, the getQuestions request
\* listed the keys in the order of the match's missing_variables, the list
\* shown is the endpoint's question list as it was returned, the form holds
\* that same list, and so the questions are in the order of the missing
\* keys.
C19_KeyOrderPreserved ==
    \A j \in 1..Len(messages) :
        (messages[j].kind = "questions" /\ messages[j].by = "send") =>
            LET q == messages[j]
                e == q.epoch
            IN
            /\ \A i \in AsksOfSend(e) :
                  /\ requests[i].keys = requests[i].missing
                  /\ q.questions =
                        QuestionsResponse(requests[i].template_id,
                                          requests[i].keys).questions
                  /\ KeysAsked(q.questions) = requests[i].missing
            /\ \A m \in MatchMessages :
                  messages[m].epoch = e =>
                     \A i \in AsksOfSend(e) : requests[i].keys = messages[m].missing
            /\ forms[q.form].questions = q.questions

\* C19 witness: handleSend has shown a form with two questions.
C19_Witness ==
    \E j \in 1..Len(messages) :
        /\ messages[j].kind = "questions" /\ messages[j].by = "send"
        /\ Len(messages[j].questions) = 2
        /\ AsksOfSend(messages[j].epoch) # {}
        /\ Len(forms[messages[j].form].questions) = 2

\* a step of handleSend that took the /vars branch: it sent getTemplate
VarsCommand ==
    /\ Len(requests') > Len(requests)
    /\ Last(requests').api = "template"
    /\ Last(requests').by = "send"

\* C20 as stated: with a template selected, a /vars command leaves
\* currentTemplate, currentAnswers, pendingQuestions, isLoading and
\* userQuery as they were, and appends the variable listing or a failure
\* message.
C20_VarsReadOnly ==
    [][ VarsCommand =>
           UNCHANGED << currentTemplate, currentAnswers, pendingQuestions,
                        isLoading, userQuery >> ]_vars

\* pat occurs in s
Occurs(s, pat) ==
    \E i \in 1..(Len(s) - Len(pat) + 1) : SubSeq(s, i, i + Len(pat) - 1) = pat

\* a variable list in every order
Reorderings(vs) ==
    { [i \in 1..Len(vs) |-> vs[f[i]]] :
        f \in { g \in [1..Len(vs) -> 1..Len(vs)] :
                  \A i, j \in 1..Len(vs) : i # j => g[i] # g[j] } }

\* C21 as stated: the body handleSave passes on does not depend on the
\* order of the variables; each variable whose non-empty example occurs in
\* the extracted text has its own {{key}} placeholder in the body, unaltered
\* by the other variables' replacements; and with no example at all the
\* body is the extracted text.
C21_ReplacementsIndependent ==
    (review # NotShown /\ review.saved # << >>) =>
        LET data == review.saved[1]
            text == review.extractedTextPreview
            vs == data.variables
        IN
        /\ \A other \in Reorderings(vs) :
              ReplaceExamples(text, other, 1) = data.bodyMd
        /\ \A i \in 1..Len(vs) :
              (vs[i].example # EmptyStr /\ Occurs(text, vs[i].example)) =>
                  Occurs(data.bodyMd, PlaceholderFor(vs[i].key))
        /\ (\A i \in 1..Len(vs) : vs[i].example = EmptyStr) => data.bodyMd = text

\* the keys a match has prefilled for template t, and the keys a question
\* list shown for template t has asked
PrefilledFor(t) ==
    UNION { Keys(messages[j].prefilled) :
              j \in { m \in MatchMessages : messages[m].templateMatch = t } }
AskedFor(t) ==
    UNION { Range(KeysAsked(forms[f].questions)) :
              f \in { n \in 1..Len(forms) : forms[n].tpl = t } }

\* C22 as stated: every key of the answers of a generateDraft request was
\* prefilled by a match for the template passed with it or asked in a
\* question list of that template.
C22_AnswersBelongToTemplate ==
    \A i \in Generates :
        Keys(requests[i].answers) \subseteq
            PrefilledFor(requests[i].template_id) \cup AskedFor(requests[i].template_id)

\* the matchTemplate requests in flight: the handleSend tasks awaiting one
MatchesInFlight ==
    { i \in 1..Len(tasks) : tasks[i].h = "send" /\ tasks[i].pc = "match" }

\* C23 as stated: at most one matchTemplate request is in flight at any
\* time.
C23_OneMatchInFlight == Cardinality(MatchesInFlight) <= 1

\* the state SpecAsked starts in, as a session of SpecLong reaches it
AskedReached == AskedAndSent(LongEvents - 3)

\* the handleSend calls that have set isLoading to true and have not
\* returned yet, each named by the number of its query
LoadingSends ==
    { tasks[i].epoch :
        i \in { j \in 1..Len(tasks) :
                  tasks[j].h = "send" /\ tasks[j].pc # "vars" } }

\* C24: when every request eventually resolves or rejects, every handleSend
\* that has set isLoading to true returns, whichever of its requests
\* resolved or rejected on the way, and the step at which it returns sets
\* isLoading to false.
C24_SendEndsLoading ==
    /\ \A e \in 1..LongEvents :
          (e \in LoadingSends) ~> (e \notin LoadingSends)
    /\ [][\A e \in LoadingSends :
            e \notin LoadingSends' => isLoading' = FALSE]_vars

\* C24 witness: two handleSend calls have set isLoading and returned, one
\* with a draft, the other from the catch block or with no best match, and
\* isLoading is false.
C24_Witness ==
    /\ nSent = 2
    /\ LoadingSends = {}
    /\ ~isLoading
    /\ \E m \in 1..Len(messages) :
          messages[m].kind = "draft" /\ messages[m].by = "send"
    /\ \E m \in 1..Len(messages) :
          \/ messages[m].kind = "error" /\ messages[m].by = "send"
          \/ messages[m].kind = "nomatch"

====
